---- MODULE Spec2Model ----
(***************************************************************************)
(* speak-mintlify: narration-block injection, change detection and orphan  *)
(* reconciliation.                                                         *)
(*                                                                         *)
(* A document is the array produced by mdxContent.split('\n'): a sequence  *)
(* of lines.  A line is a record whose field k names the kind of text on   *)
(* that line; the string tests of the source (includes, startsWith, trim,  *)
(* the regular expressions) are operators over that kind.  Array indices   *)
(* are kept 0-based as in the source; Line(lines, i) reads lines[i].       *)
(***************************************************************************)
EXTENDS Integers, Sequences, FiniteSets, TLC

componentName == "AudioTranscript"

(* ----------------------------- bounds --------------------------------- *)
MaxInjects == 2
MaxSteps == 2
\* full batches in a key list handed to deleteMultiple
MaxBatches == 2
\* pages of a listing, and keys on one page
MaxPages == 3
MaxPageSize == 2

(* ------------------------------ lines --------------------------------- *)
Blank == [k |-> "blank"]
Fence == [k |-> "fence"]
Meta == [k |-> "meta"]
ImportOther == [k |-> "import", name |-> "Card"]
Heading(t) == [k |-> "heading", t |-> t]
Para(t) == [k |-> "para", t |-> t]
OtherOpen == [k |-> "open"]
OtherClose == [k |-> "close"]
OtherSelf == [k |-> "self"]
TagOpen == [k |-> "tagOpen"]
TagClose == [k |-> "tagClose"]
ObjOpen == [k |-> "objOpen"]
ObjClose(last) == [k |-> "objClose", last |-> last]
IdLine(id) == [k |-> "id", v |-> id]
NameLine(n) == [k |-> "name", v |-> n]
UrlLine(u) == [k |-> "url", v |-> u]
\* the fence of a fenced code block, and a line between two fences
CodeFence == [k |-> "codeFence"]
Code(t) == [k |-> "code", t |-> t]

\* `import { AudioTranscript } from '<componentImport>';`
importStatement == [k |-> "import", name |-> componentName]

\* `{/* speak-mintlify-hash: <hash> */}`
hashComment(hash) == [k |-> "hash", fp |-> hash]

(* ------------------------- string predicates --------------------------- *)
TrimIsEmpty(l) == l.k = "blank"
StartsWithImport(l) == l.k = "import"
IncludesComponentImport(l) == l.k = "import" /\ l.name = componentName
IncludesComponentTag(l) == l.k = "tagOpen"
IncludesSelfClose(l) == l.k \in {"tagClose", "self"}
IncludesHashMarker(l) == l.k = "hash"
MatchesOtherOpen(l) == l.k \in {"open", "self"}
MatchesOtherClose(l) == l.k = "close"

(* --------------------------- array helpers ----------------------------- *)
Min(a, b) == IF a < b THEN a ELSE b
Max(a, b) == IF a > b THEN a ELSE b

\* lines[i], 0-based; outside the array the source reads undefined
InRange(lines, i) == i >= 0 /\ i < Len(lines)
Line(lines, i) == lines[i + 1]

\* Array.prototype.splice(start, deleteCount, ...items), start >= 0
Splice(lines, start, deleteCount, items) ==
  LET s == Min(start, Len(lines))
      d == Min(Max(deleteCount, 0), Len(lines) - s)
  IN SubSeq(lines, 1, s) \o items \o SubSeq(lines, s + d + 1, Len(lines))

\* lines[i]?.trim() !== ''
NotBlankAt(lines, i) == ~InRange(lines, i) \/ ~TrimIsEmpty(Line(lines, i))

(* ------------------------- voice serialisation ------------------------- *)
RECURSIVE VoiceObjects(_)
\* JSON.stringify(voices, null, 2), one element per physical line; the
\* opening bracket is on the tag's first line, the closing one on its last
VoiceObjects(voices) ==
  IF voices = << >> THEN << >>
  ELSE << ObjOpen, IdLine(Head(voices).id), NameLine(Head(voices).name),
          UrlLine(Head(voices).url), ObjClose(Len(voices) = 1) >>
       \o VoiceObjects(Tail(voices))

\* `<AudioTranscript voices={[ ... ]} />`
componentCode(voices) == << TagOpen >> \o VoiceObjects(voices) \o << TagClose >>

RECURSIVE ParseVoices(_)
\* JSON.parse of the attribute value: ok is FALSE where JSON.parse throws
ParseVoices(body) ==
  IF body = << >> THEN [ok |-> TRUE, v |-> << >>]
  ELSE IF Len(body) < 5 THEN [ok |-> FALSE, v |-> << >>]
  ELSE IF ~(/\ body[1].k = "objOpen" /\ body[2].k = "id" /\ body[3].k = "name"
            /\ body[4].k = "url" /\ body[5].k = "objClose"
            /\ body[5].last = (Len(body) = 5))
       THEN [ok |-> FALSE, v |-> << >>]
  ELSE LET rest == ParseVoices(SubSeq(body, 6, Len(body)))
       IN [ok |-> rest.ok,
           v |-> << [id |-> body[2].v, name |-> body[3].v, url |-> body[4].v] >>
                 \o rest.v]

(* ------------------------------ parseMDX ------------------------------- *)
(* remark-parse + remark-mdx + remark-frontmatter, by line.  Positions are *)
(* 1-based line numbers as in mdast.  A node is                            *)
(* [type, start, end, depth, val]; depth counts the enclosing JSX flow     *)
(* elements.  ok is FALSE where the parser throws: an import/export block  *)
(* (the lines from an import at the start of a flow block to the next      *)
(* blank line) that holds anything but import/export statements, an        *)
(* unclosed or unopened JSX tag.                                           *)
Node(type, start, end, depth, val) ==
  [type |-> type, start |-> start, end |-> end, depth |-> depth, val |-> val]

NoVal == [ok |-> FALSE, v |-> << >>]

\* last line of the run of non-blank lines starting at line i
RECURSIVE RunEnd(_, _)
RunEnd(lines, i) ==
  IF i < Len(lines) /\ ~TrimIsEmpty(lines[i + 1]) THEN RunEnd(lines, i + 1) ELSE i

\* first line >= i of kind k, 0 if none
RECURSIVE FirstOfKind(_, _, _)
FirstOfKind(lines, i, k) ==
  IF i > Len(lines) THEN 0
  ELSE IF lines[i].k = k THEN i
  ELSE FirstOfKind(lines, i + 1, k)

\* end line of the front-matter node, 0 if the document has none
FrontmatterEnd(lines) ==
  IF Len(lines) >= 2 /\ lines[1].k = "fence" THEN FirstOfKind(lines, 2, "fence") ELSE 0

RECURSIVE ParseFrom(_, _, _, _, _, _)
ParseFrom(lines, i, depth, inPara, nodes, text) ==
  IF i > Len(lines)
  THEN [ok |-> depth = 0, nodes |-> nodes, text |-> text]
  ELSE
    LET l == lines[i]
        say(t) == IF depth = 0 THEN Append(text, t) ELSE text
    IN CASE l.k = "blank" -> ParseFrom(lines, i + 1, depth, FALSE, nodes, text)
         [] l.k = "import" /\ inPara ->
              \* an import cannot interrupt a paragraph: it is paragraph text
              ParseFrom(lines, i + 1, depth, TRUE, nodes, say("import"))
         [] l.k = "import" /\ ~inPara ->
              LET j == RunEnd(lines, i)
              IN IF \A n \in i..j : lines[n].k = "import"
                 THEN ParseFrom(lines, j + 1, depth, FALSE,
                                Append(nodes, Node("mdxjsEsm", i, j, depth, NoVal)), text)
                 ELSE [ok |-> FALSE, nodes |-> nodes, text |-> text]
         [] l.k = "fence" ->
              \* outside the front matter: a thematic break or a setext underline
              ParseFrom(lines, i + 1, depth, FALSE,
                        IF inPara THEN nodes
                        ELSE Append(nodes, Node("thematicBreak", i, i, depth, NoVal)),
                        text)
         [] l.k = "codeFence" ->
              \* fenced code: up to the closing fence, or to the end without one
              LET j == FirstOfKind(lines, i + 1, "codeFence")
                  e == IF j = 0 THEN Len(lines) + 1 ELSE j
              IN ParseFrom(lines, e + 1, depth, FALSE,
                           Append(nodes, Node("code", i, Min(e, Len(lines)), depth,
                                              [ok |-> TRUE, v |-> SubSeq(lines, i + 1, e - 1)])),
                           text)
         [] l.k = "heading" ->
              ParseFrom(lines, i + 1, depth, FALSE,
                        Append(nodes, Node("heading", i, i, depth, NoVal)), say(l.t))
         [] l.k \in {"para", "meta"} ->
              ParseFrom(lines, i + 1, depth, TRUE,
                        IF inPara THEN nodes
                        ELSE Append(nodes, Node("paragraph", i, i, depth, NoVal)),
                        say(IF l.k = "para" THEN l.t ELSE "meta"))
         [] l.k = "hash" ->
              ParseFrom(lines, i + 1, depth, FALSE,
                        Append(nodes, Node("mdxFlowExpression", i, i, depth,
                                           [ok |-> TRUE, v |-> << l.fp >>])), text)
         [] l.k = "tagOpen" ->
              LET j == FirstOfKind(lines, i, "tagClose")
              IN IF j = 0 THEN [ok |-> FALSE, nodes |-> nodes, text |-> text]
                 ELSE ParseFrom(lines, j + 1, depth, FALSE,
                                Append(nodes, Node("mdxJsxFlowElement", i, j, depth,
                                                   ParseVoices(SubSeq(lines, i + 1, j - 1)))),
                                text)
         [] l.k = "self" ->
              ParseFrom(lines, i + 1, depth, FALSE,
                        Append(nodes, Node("mdxJsxFlowElement", i, i, depth, NoVal)), text)
         [] l.k = "open" ->
              ParseFrom(lines, i + 1, depth + 1, FALSE,
                        Append(nodes, Node("mdxJsxFlowElement", i, i, depth, NoVal)), text)
         [] l.k = "close" ->
              IF depth = 0 THEN [ok |-> FALSE, nodes |-> nodes, text |-> text]
              ELSE ParseFrom(lines, i + 1, depth - 1, FALSE, nodes, text)
         [] OTHER -> [ok |-> FALSE, nodes |-> nodes, text |-> text]

\* processor.parse(content): the nodes of the tree in document order
parseMDX(lines) ==
  LET fm == FrontmatterEnd(lines)
  IN IF fm > 0
     THEN ParseFrom(lines, fm + 1, 0, FALSE, << Node("yaml", 1, fm, 0, NoVal) >>, << >>)
     ELSE ParseFrom(lines, 1, 0, FALSE, << >>, << >>)

\* the largest / smallest value of a non-empty finite set of integers
SetMax(S) == CHOOSE x \in S : \A y \in S : y <= x
SetMin(S) == CHOOSE x \in S : \A y \in S : x <= y

(* ------------------------ findInsertionPoints -------------------------- *)
\* walkTree over the parsed tree and the two positions computed from it
InsertionPointsIn(ast) ==
  LET ns == ast.nodes
      fmEnds == { ns[n].end : n \in { m \in DOMAIN ns : ns[m].type = "yaml" } }
      esmEnds == { ns[n].end : n \in { m \in DOMAIN ns : ns[m].type = "mdxjsEsm" } }
      starts == { ns[n].start : n \in { m \in DOMAIN ns :
                     ns[m].type \in {"heading", "paragraph", "mdxJsxFlowElement"} } }
      frontmatterEndLine == IF fmEnds = {} THEN 0 ELSE SetMax(fmEnds)
      lastImportEndLine == IF esmEnds = {} THEN 0 ELSE SetMax(esmEnds)
      firstContentLine == IF starts = {} THEN 0 ELSE SetMin(starts)
      importPos == IF lastImportEndLine > 0 THEN lastImportEndLine ELSE frontmatterEndLine
      componentPos == IF firstContentLine > 0 THEN firstContentLine - 1 ELSE importPos
  IN [ok |-> ast.ok, importPos |-> importPos, componentPos |-> componentPos]

findInsertionPoints(lines) == InsertionPointsIn(parseMDX(lines))

(* ---------------------- extractExistingAudioData ----------------------- *)
\* walkTree keeps the last hash annotation and the last component tag whose
\* voices attribute JSON.parse accepts; null unless foundVoices is non-empty.
\* ok is FALSE where parseMDX throws.
ExistingIn(lines, ast) ==
  LET ns == ast.nodes
      hashes == { n \in DOMAIN ns : ns[n].type = "mdxFlowExpression" }
      tags == { n \in DOMAIN ns : /\ ns[n].type = "mdxJsxFlowElement"
                                  /\ lines[ns[n].start].k = "tagOpen"
                                  /\ ns[n].val.ok }
      foundVoices == IF tags = {} THEN << >> ELSE ns[SetMax(tags)].val.v
  IN [ok |-> ast.ok,
      found |-> Len(foundVoices) > 0,
      hasHash |-> hashes # {},
      hash |-> IF hashes = {} THEN << >> ELSE ns[SetMax(hashes)].val.v[1],
      voiceIds |-> [n \in DOMAIN foundVoices |-> foundVoices[n].id],
      voices |-> foundVoices]

extractExistingAudioData(lines) == ExistingIn(lines, parseMDX(lines))

(* ------------------------- extractCleanText ---------------------------- *)
\* gray-matter strips the front matter, the remark pipeline drops imports,
\* JSX elements and expressions with their subtrees, and what is left is the
\* text of the headings and paragraphs outside any JSX element: strip-markdown
\* keeps the text of headings and paragraphs and replaces a code node by
\* nothing.  (First, a pipeline that keeps the lines of code blocks as text.)
CleanTextKeepCode(ast) ==
  [ok |-> ast.ok,
   text |-> ast.text
            \o [n \in 1..Cardinality({ m \in DOMAIN ast.nodes : ast.nodes[m].type = "code" })
                  |-> { ast.nodes[m].val.v : m \in { x \in DOMAIN ast.nodes :
                                                      ast.nodes[x].type = "code" } }]]

CleanTextIn(ast) == [ok |-> ast.ok, text |-> ast.text]

extractCleanText(lines) == CleanTextIn(parseMDX(lines))

\* SHA-256 hex digest: one digest per text, no two texts share one
generateHash(content) == << "sha256", content >>

(* -------------------------- hasAudioComponent -------------------------- *)
hasAudioComponent(lines) == \E n \in DOMAIN lines : IncludesComponentTag(lines[n])

(* ------------------------ injectAudioComponent ------------------------- *)
\* the for loop of the replace branch, from index i, with its break
RECURSIVE ScanLoop(_, _, _)
ScanLoop(lines, i, st) ==
  IF i >= Len(lines) THEN st
  ELSE
    LET line == Line(lines, i)
        lastImportLine == IF StartsWithImport(line) THEN i ELSE st.lastImportLine
        entered == IF MatchesOtherOpen(line) THEN TRUE ELSE st.inOtherComponent
        inOtherComponent == IF entered /\ MatchesOtherClose(line) THEN FALSE ELSE entered
        hashLine == IF IncludesHashMarker(line) THEN i ELSE st.hashLine
        componentStart == IF IncludesComponentTag(line) THEN i ELSE st.componentStart
        next == [lastImportLine |-> lastImportLine, inOtherComponent |-> inOtherComponent,
                 hashLine |-> hashLine, componentStart |-> componentStart,
                 componentEnd |-> st.componentEnd]
    IN IF componentStart >= 0 /\ IncludesSelfClose(line)
       THEN [next EXCEPT !.componentEnd = i]
       ELSE ScanLoop(lines, i + 1, next)

ScanExisting(lines) ==
  ScanLoop(lines, 0, [lastImportLine |-> -1, inOtherComponent |-> FALSE, hashLine |-> -1,
                      componentStart |-> -1, componentEnd |-> -1])

\* the block rewritten where it stands, wherever that is
ReplaceExistingInPlace(lines, voices, hash, st) ==
  LET from == IF st.hashLine >= 0 /\ st.hashLine < st.componentStart
              THEN st.hashLine ELSE st.componentStart
  IN Splice(lines, from, st.componentEnd - from + 1,
            << hashComment(hash) >> \o componentCode(voices))

\* the new block inserted after the imports with the old one left behind
ReplaceExistingKeepOld(lines, voices, hash, st) ==
  Splice(lines, st.lastImportLine + 1, 0,
         << Blank, hashComment(hash) >> \o componentCode(voices))

\* remove the old hash and component, re-insert after the imports
ReplaceExisting(lines, voices, hash, st) ==
  LET removed == IF st.hashLine >= 0 /\ st.hashLine < st.componentStart
                 THEN Splice(lines, st.hashLine, st.componentEnd - st.hashLine + 1, << >>)
                 ELSE Splice(lines, st.componentStart,
                             st.componentEnd - st.componentStart + 1, << >>)
      insertPos == st.lastImportLine + 1
  IN Splice(removed, insertPos, 0, << Blank, hashComment(hash) >> \o componentCode(voices))

\* "Add blank line before component if needed": the blank line is spliced
\* in at adjustedComponentPos, and the hash comment is then spliced in at
\* the same index, in front of it
BlankBefore(lines, adjustedComponentPos) ==
  IF NotBlankAt(lines, adjustedComponentPos - 1)
  THEN Splice(lines, adjustedComponentPos, 0, << Blank >>)
  ELSE lines

\* the component tag is one array element in the source, so the element at
\* adjustedComponentPos + 2 is the line after the tag's last line
BlankAfter(lines, afterPos) ==
  IF NotBlankAt(lines, afterPos) THEN Splice(lines, afterPos, 0, << Blank >>) ELSE lines

InsertFresh(lines, voices, hash, hasImport, pts) ==
  LET withImport == IF ~hasImport THEN Splice(lines, pts.importPos, 0, << importStatement >>)
                    ELSE lines
      adjustedComponentPos == IF hasImport THEN pts.componentPos ELSE pts.componentPos + 1
      l1 == BlankBefore(withImport, adjustedComponentPos)
      l2 == Splice(l1, adjustedComponentPos, 0, << hashComment(hash) >>)
      l3 == Splice(l2, adjustedComponentPos + 1, 0, componentCode(voices))
  IN BlankAfter(l3, adjustedComponentPos + 1 + Len(componentCode(voices)))

\* ok is FALSE where the call throws (findInsertionPoints' parse)
InjectWith(lines, voices, hash, hasImport, st, pts) ==
  IF hasAudioComponent(lines) /\ st.componentStart >= 0 /\ st.componentEnd >= 0
  THEN [ok |-> TRUE, doc |-> ReplaceExisting(lines, voices, hash, st)]
  ELSE IF pts.ok
  THEN [ok |-> TRUE, doc |-> InsertFresh(lines, voices, hash, hasImport, pts)]
  ELSE [ok |-> FALSE, doc |-> lines]

injectAudioComponent(mdxContent, voices, hash) ==
  InjectWith(mdxContent, voices, hash,
             \E n \in DOMAIN mdxContent : IncludesComponentImport(mdxContent[n]),
             ScanExisting(mdxContent), findInsertionPoints(mdxContent))

(* ------------------------- storage keys and URLs ----------------------- *)
(* A key or URL is the sequence of its path segments and "/" separators,   *)
(* so that startsWith and substring act on it as they do on the string.    *)
pathPrefix == "audio"
publicUrl == << "https://cdn", "/" >>
Hosts == { "https://cdn", "https://old" }

\* publicUrl.replace(/\/$/, '')
StripSlash(u) == IF Len(u) > 0 /\ u[Len(u)] = "/" THEN SubSeq(u, 1, Len(u) - 1) ELSE u

\* .toLowerCase() on a segment: the segments used are lower-case but for one
toLowerCase(segment) == IF segment = "A" THEN "a" ELSE segment

\* a file path is the sequence of its segments, the last without `.mdx`
\* (.replace, .split, .slice(-2), .join, .toLowerCase)
slugOf(filePath) ==
  IF Len(filePath) = 1 THEN toLowerCase(filePath[1])
  ELSE toLowerCase(filePath[Len(filePath) - 1]) \o "-" \o toLowerCase(filePath[Len(filePath)])

\* `${prefix}/${slug}/${voiceId}.mp3`
generateKey(filePath, voiceId) ==
  << pathPrefix, "/", slugOf(filePath), "/", voiceId \o ".mp3" >>

\* the URL uploadAudio returns for a key
uploadedUrl(key) == StripSlash(publicUrl) \o << "/" >> \o key

StartsWith(str, pre) == Len(pre) <= Len(str) /\ SubSeq(str, 1, Len(pre)) = pre

\* the base URL cut off without the slash that follows it
extractKeyFromUrlKeepSlash(url, pub) ==
  LET baseUrl == StripSlash(pub)
  IN IF StartsWith(url, baseUrl) THEN SubSeq(url, Len(baseUrl) + 1, Len(url))
     ELSE IF Len(url) > 0 /\ url[1] \in Hosts
          THEN SubSeq(url, 3, Len(url))
          ELSE url

extractKeyFromUrl(url, pub) ==
  LET baseUrl == StripSlash(pub)
  IN IF StartsWith(url, baseUrl) THEN SubSeq(url, Len(baseUrl) + 2, Len(url))
     ELSE IF Len(url) > 0 /\ url[1] \in Hosts
          THEN SubSeq(url, 3, Len(url))      \* new URL(url).pathname.substring(1)
          ELSE url

\* config.voiceNames[idx] || `Voice ${idx + 1}`, no names configured
VoiceName(idx) == "Voice " \o ToString(idx)
Voice(id, idx, url) == [id |-> id, name |-> VoiceName(idx), url |-> url]
\* config.voiceIds.map((id, idx) => ({ id, name, url: audioUrls[id] }))
VoicesFor(filePath, ids) ==
  [idx \in DOMAIN ids |-> Voice(ids[idx], idx, uploadedUrl(generateKey(filePath, ids[idx])))]

(* ----------------------------- documents ------------------------------- *)
OldHash == generateHash(<< "old" >>)
OldVoices == << Voice("v1", 1, << "https://old", "/" >> \o generateKey(<< "a", "x" >>, "v1")) >>
OldBlock == << hashComment(OldHash) >> \o componentCode(OldVoices)

FrontMatters == { << >>, << Fence, Meta, Fence >> }
Gaps == { << >>, << Blank >> }
ImportBlocks == { << >>, << ImportOther >>, << importStatement >> }
Blocks == { << >>, OldBlock \o << Blank >>,
            << OtherOpen >> \o OldBlock \o << OtherClose, Blank >> }
Contents == { << Heading("t1"), Para("t2"), Blank >>,
              << OtherSelf, Blank, Para("t1"), Blank >> }

\* the documents a run can meet: every arrangement of front matter, imports,
\* an earlier narration block and content that the MDX parser accepts
Docs ==
  { d \in { fm \o g1 \o im \o g2 \o bl \o ct :
              fm \in FrontMatters, g1 \in Gaps, im \in ImportBlocks, g2 \in Gaps,
              bl \in Blocks, ct \in Contents } :
      parseMDX(d).ok }

InjVoiceLists ==
  { VoicesFor(<< "a", "x" >>, ids) :
      ids \in { << "v1" >>, << "v1", "v2" >>, << "v2", "v1" >> } }

InjHashes == { generateHash(<< "t1", "t2" >>), generateHash(<< "t1" >>) }

(* --------------------------- configuration ----------------------------- *)
(* A value is a string; Absent is the flag that was not given, the         *)
(* environment variable that is not set, the key the YAML file lacks: all  *)
(* falsy for `||`.  The voice list is kept split (<< >> when absent).      *)
Absent == ""
\* a || b
Orelse(a, b) == IF a # Absent THEN a ELSE b

\* the options commander hands to the action: the flags given, and the
\* declared default for each option that declares one and was not given
commander(cmd, cli) ==
  [cli EXCEPT !.s3PathPrefix = Orelse(@, pathPrefix),
              !.componentImport = IF cmd = "generate"
                                  THEN Orelse(@, "/snippets/audio-transcript.jsx")
                                  ELSE Absent,
              !.componentName = Orelse(@, componentName),
              !.voices = IF cmd = "generate" THEN @ ELSE << >>,
              !.apiKey = IF cmd = "generate" THEN @ ELSE Absent]

\* resolveConfig: ok is FALSE where it throws, missing names what it reports
resolveConfig(options, env, yamlConfig) ==
  LET s3Bucket == Orelse(options.s3Bucket, env.S3_BUCKET)
      s3AccessKeyId == Orelse(options.s3AccessKeyId, env.S3_ACCESS_KEY_ID)
      s3SecretAccessKey == Orelse(options.s3SecretAccessKey, env.S3_SECRET_ACCESS_KEY)
      s3PublicUrl == Orelse(options.s3PublicUrl, env.S3_PUBLIC_URL)
      missing == (IF s3Bucket = Absent THEN {"S3_BUCKET"} ELSE {})
                 \cup (IF s3AccessKeyId = Absent THEN {"S3_ACCESS_KEY_ID"} ELSE {})
                 \cup (IF s3SecretAccessKey = Absent THEN {"S3_SECRET_ACCESS_KEY"} ELSE {})
                 \cup (IF s3PublicUrl = Absent THEN {"S3_PUBLIC_URL"} ELSE {})
  IN [ok |-> missing = {},
      missing |-> missing,
      fishApiKey |-> Orelse(options.apiKey, env.FISH_API_KEY),
      voiceIds |-> IF options.voices # << >> THEN options.voices
                   ELSE IF yamlConfig.hasVoices THEN yamlConfig.voices
                   ELSE << >>,
      s3Bucket |-> s3Bucket,
      s3AccessKeyId |-> s3AccessKeyId,
      s3SecretAccessKey |-> s3SecretAccessKey,
      s3PublicUrl |-> s3PublicUrl,
      s3Region |-> Orelse(options.s3Region, Orelse(env.S3_REGION, "us-east-1")),
      s3PathPrefix |-> Orelse(options.s3PathPrefix, pathPrefix),
      componentImport |-> Orelse(options.componentImport,
                                 Orelse(yamlConfig.componentImport,
                                        "/snippets/audio-transcript.jsx")),
      componentName |-> Orelse(options.componentName,
                               Orelse(yamlConfig.componentName, componentName))]

\* validateGenerateConfig: the names it would report; it throws unless empty
validateGenerateConfig(config) ==
  (IF config.fishApiKey = Absent THEN {"FISH_API_KEY"} ELSE {})
  \cup (IF config.voiceIds = << >> THEN {"Voices"} ELSE {})

\* what a command gets from resolving (and, for generate, validating) its
\* configuration: ok is FALSE where either throws
ConfigFor(inv) ==
  LET c == resolveConfig(commander(inv.cmd, inv.cli), inv.env, inv.yaml)
      invalid == IF inv.cmd = "generate" /\ c.ok THEN validateGenerateConfig(c) ELSE {}
  IN [c EXCEPT !.ok = c.ok /\ invalid = {}, !.missing = c.missing \cup invalid]

\* no command run; as an invocation: no flag given, the credentials in the
\* environment, no speaker-config.yaml
NoInvocation ==
  [cmd |-> "none",
   cli |-> [voices |-> << >>, apiKey |-> Absent, s3Bucket |-> Absent,
            s3AccessKeyId |-> Absent, s3SecretAccessKey |-> Absent,
            s3PublicUrl |-> Absent, s3Region |-> Absent, s3PathPrefix |-> Absent,
            componentImport |-> Absent, componentName |-> Absent],
   env |-> [FISH_API_KEY |-> "key", S3_BUCKET |-> "bucket", S3_ACCESS_KEY_ID |-> "id",
            S3_SECRET_ACCESS_KEY |-> "secret", S3_PUBLIC_URL |-> "https://cdn/",
            S3_REGION |-> Absent],
   yaml |-> [hasVoices |-> FALSE, voices |-> << >>, componentImport |-> Absent,
             componentName |-> Absent]]
\* no command has resolved a configuration
NoConfig == [ok |-> FALSE, missing |-> {}]

\* the storage client is not in a call
NoS3 == [op |-> "none"]

\* no tree transformed, no key generated
NoAst == [phase |-> "none"]
NoKeys == << >>

\* no document is being processed in parallel
NoPar == [phase |-> "off", file |-> << >>, synth |-> << >>, upload |-> << >>, writes |-> 0]

(* ------------------------------- state --------------------------------- *)
VARIABLES
  doc,        \* the document passed to and returned by injectAudioComponent
  input,      \* the document the last call was given
  first,      \* the document before the first call
  calls,      \* number of calls made
  args,       \* << voices, hash >> of the last call
  returned,   \* FALSE if the last call threw
  files,      \* the documents on disk, by path
  storage,    \* the keys of the objects in the bucket
  voiceIds,   \* config.voiceIds
  pc,         \* "idle", "generate" while a generate run is in its file loop,
              \* "scan" and "delete" while a cleanup run is in its scan loop
              \* and at its delete request
  queue,      \* the files the running command has still to process
  dryRun,     \* config.dryRun of the running generate command
  results,    \* the running (or last) generate run's result per file
  effects,    \* what that run did per file: syntheses, uploads, write
  start,      \* the documents as they were when that run started
  prev,       \* the finished run before it: its results, documents, voice ids
  cleanup,    \* the last cleanup run
  prevCleanup,\* the cleanup run before it
  steps,      \* commands and edits so far
  invocation, \* the flags, environment and YAML file of the last command run
  exit,       \* its exit code: 0, 1, or -1 while it runs (and before any)
  config,     \* the configuration it resolved
  par,        \* the per-voice tasks of a document processed in parallel
  s3,         \* the storage client's call in progress: its loop and its requests
  ast,        \* the syntax tree given to remarkRemoveJSX and the tree it leaves
  keyOf       \* the storage key of each document uploaded for, by path

injVars == << doc, input, first, calls, args, returned >>
genVars == << files, storage, voiceIds, pc, queue, dryRun, results, effects, start, prev,
              cleanup, prevCleanup, steps, invocation, exit, config >>
vars == << doc, input, first, calls, args, returned, files, storage, voiceIds, pc, queue,
           dryRun, results, effects, start, prev, cleanup, prevCleanup, steps,
           invocation, exit, config, par, s3, ast, keyOf >>

(* ------------------------------ generate ------------------------------- *)
Paths == { << "a", "x" >>, << "b", "y" >> }
\* findMDXFiles: the matched files in glob order
FileList == << << "a", "x" >>, << "b", "y" >> >>

VoiceIdLists == { << "v1" >>, << "v1", "v2" >>, << "v2", "v1" >>, << "v1", "v1" >> }

Range(f) == { f[x] : x \in DOMAIN f }

\* existingData.voiceIds.length === config.voiceIds.length &&
\* config.voiceIds.every(id => existingData.voiceIds.includes(id))
voicesMatch(existingIds, requested) ==
  /\ Len(existingIds) = Len(requested)
  /\ \A n \in DOMAIN requested : requested[n] \in Range(existingIds)

hashMatches(existingData, hash) == existingData.hasHash /\ existingData.hash = hash

NoEffect == [synth |-> 0, upload |-> 0, written |-> FALSE, error |-> "none"]
\* the calls made by an iteration that ended in the catch block, and the
\* step that threw
Thrown(s, u, step) == [synth |-> s, upload |-> u, written |-> FALSE, error |-> step]

\* One pass of the file loop's body over content.  failAt names the awaited
\* call that throws: 0 none, -1 the file read, 2i-1 the synthesis of voice i,
\* 2i the upload of voice i, 2n+1 the file write.  Yields the result pushed, the content of
\* the file afterwards, the keys put to storage and the calls made.
FileOutcome(file, content, ids, dry, failAt, clean, existingData, injected) ==
  LET hash == generateHash(clean.text)
      n == Len(ids)
      synthDone == IF failAt = 0 \/ failAt > 2 * n THEN n ELSE (failAt + 1) \div 2
      uploadDone == IF failAt = 0 \/ failAt > 2 * n THEN n ELSE (failAt - 1) \div 2
      put == { generateKey(file, ids[i]) : i \in 1..uploadDone }
      out(r, d, k, e) == [result |-> r, doc |-> d, put |-> k, effect |-> e]
  IN IF failAt = -1 THEN out("failed", content, {}, Thrown(0, 0, "read"))
     ELSE IF ~clean.ok THEN out("failed", content, {}, Thrown(0, 0, "extract"))
     ELSE IF clean.text = << >> THEN out("empty", content, {}, NoEffect)
     ELSE IF existingData.found /\ hashMatches(existingData, hash)
             /\ voicesMatch(existingData.voiceIds, ids)
          THEN out("unchanged", content, {}, NoEffect)
     ELSE IF dry
          THEN IF injected.ok THEN out("dryrun", content, {}, NoEffect)
               ELSE out("failed", content, {}, Thrown(0, 0, "inject"))
     ELSE IF failAt > 0 /\ failAt <= 2 * n
          THEN out("failed", content, put,
                   Thrown(synthDone, uploadDone,
                          IF failAt % 2 = 1 THEN "synthesis" ELSE "upload"))
     ELSE IF ~injected.ok THEN out("failed", content, put, Thrown(n, n, "inject"))
     ELSE IF failAt = 2 * n + 1 THEN out("failed", content, put, Thrown(n, n, "write"))
     ELSE out("generated", injected.doc, put,
              [synth |-> n, upload |-> n, written |-> TRUE, error |-> "none"])

ProcessFile(file, content, ids, dry, failAt) ==
  FileOutcome(file, content, ids, dry, failAt,
              extractCleanText(content),
              extractExistingAudioData(content),
              injectAudioComponent(content, VoicesFor(file, ids),
                                   generateHash(extractCleanText(content).text)))

NoResults == [f \in Paths |-> "none"]
NoEffects == [f \in Paths |-> NoEffect]
NoCleanup == [status |-> "none", dry |-> FALSE, orphans |-> {}, deleted |-> {},
              filesAt |-> << >>, storageAt |-> {}, storageAfter |-> {}]

(* ------------------------------- cleanup ------------------------------- *)
\* the keys one document's narration block refers to
KeysOf(existingData) ==
  IF existingData.found
  THEN { extractKeyFromUrl(existingData.voices[n].url, publicUrl) :
           n \in { m \in DOMAIN existingData.voices : existingData.voices[m].url # << >> } }
  ELSE {}

referencedKeys(content) == KeysOf(extractExistingAudioData(content))

expectedKeys(fs) == UNION { referencedKeys(fs[f]) : f \in Paths }

\* ListObjectsV2 with Prefix: prefix + '/', all pages
listAllAudioFiles(bucket) == { key \in bucket : StartsWith(key, << pathPrefix, "/" >>) }

\* every listed key taken for an orphan
orphanedKeysAll(allS3Keys, expected) == allS3Keys

orphanedKeys(allS3Keys, expected) == { key \in allS3Keys : key \notin expected }

\* a delete request that removes nothing
deleteNone(bucket, keys) == bucket

\* DeleteObjects for the keys
deleteMultiple(bucket, keys) == bucket \ keys

(* ------------------------------ initial state -------------------------- *)
TextHash == generateHash(<< "t1", "t2" >>)
\* content directly under the front matter / after a blank line / with the
\* block an earlier run wrote for voices v1, v2 / without narratable text
PlainDoc == << Fence, Meta, Fence, Heading("t1"), Para("t2"), Blank >>
SpacedDoc == << Fence, Meta, Fence, Blank, Heading("t1"), Para("t2"), Blank >>
NarratedDoc ==
  << Fence, Meta, Fence, importStatement, Blank, hashComment(TextHash) >>
  \o componentCode(VoicesFor(<< "a", "x" >>, << "v1", "v2" >>))
  \o << Blank, Heading("t1"), Para("t2"), Blank, CodeFence, Code("c1"), CodeFence, Blank >>
SilentDoc == << Fence, Meta, Fence, Blank, OtherSelf, Blank >>

SeedFiles ==
  { [f \in Paths |-> IF f = << "a", "x" >> THEN d ELSE SpacedDoc] :
      d \in { PlainDoc, NarratedDoc, SilentDoc } }

SeedStorages ==
  { {},
    { generateKey(<< "a", "x" >>, "v1"), generateKey(<< "a", "x" >>, "v2"),
      generateKey(<< "gone", "z" >>, "v1"), << "other", "/", "keep.bin" >> } }

InjectIdle ==
  /\ doc = << >> /\ input = << >> /\ first = << >>
  /\ calls = 0 /\ args = << << >>, << >> >> /\ returned = TRUE

Init ==
  /\ InjectIdle
  /\ files \in SeedFiles
  /\ storage \in SeedStorages
  /\ voiceIds \in VoiceIdLists
  /\ pc = "idle"
  /\ queue = << >>
  /\ dryRun = FALSE
  /\ results = NoResults
  /\ effects = NoEffects
  /\ start = files
  /\ prev = [results |-> NoResults, files |-> files, voiceIds |-> voiceIds]
  /\ cleanup = NoCleanup
  /\ prevCleanup = NoCleanup
  /\ steps = 0
  /\ invocation = NoInvocation
  /\ exit = -1
  /\ config = NoConfig
  /\ par = NoPar
  /\ s3 = NoS3
  /\ ast = NoAst
  /\ keyOf = NoKeys

(* ------------------------------- actions ------------------------------- *)
\* the invocations of generate tried: everything given (the voices as
\* --voices), and one required value left out of flags, environment and file
GenerateInvocations(ids) ==
  { [NoInvocation EXCEPT !.cmd = "generate", !.cli.voices = ids],
    [NoInvocation EXCEPT !.cmd = "generate"],
    [NoInvocation EXCEPT !.cmd = "generate", !.cli.voices = ids, !.env.FISH_API_KEY = Absent],
    [NoInvocation EXCEPT !.cmd = "generate", !.cli.voices = ids, !.env.S3_BUCKET = Absent] }

\* a generate command that lets an incomplete configuration through
StartGenerateUnchecked(dry, inv) ==
  /\ pc = "idle" /\ steps < MaxSteps
  /\ steps' = steps + 1
  /\ invocation' = inv
  /\ config' = ConfigFor(inv)
  /\ pc' = "generate"
  /\ queue' = FileList
  /\ dryRun' = dry
  /\ results' = NoResults
  /\ effects' = NoEffects
  /\ start' = files
  /\ exit' = -1
  /\ UNCHANGED << files, storage, voiceIds, prev, cleanup, prevCleanup >>
  /\ UNCHANGED << ast, keyOf, injVars, par, s3 >>

\* generateCommand up to the file loop: the configuration resolved and
\* validated (a throw goes to the outer catch, which exits with 1), the
\* clients made, the files found
StartGenerate(dry, inv) ==
  /\ pc = "idle" /\ steps < MaxSteps
  /\ steps' = steps + 1
  /\ invocation' = inv
  /\ config' = ConfigFor(inv)
  /\ IF config'.ok
     THEN /\ voiceIds' = config'.voiceIds
          /\ pc' = "generate"
          /\ queue' = FileList
          /\ dryRun' = dry
          /\ results' = NoResults
          /\ effects' = NoEffects
          /\ start' = files
          /\ exit' = -1
     ELSE /\ exit' = 1
          /\ UNCHANGED << voiceIds, pc, queue, dryRun, results, effects, start >>
  /\ UNCHANGED << files, storage, prev, cleanup, prevCleanup >>
  /\ UNCHANGED << ast, keyOf, injVars, par, s3 >>

\* an iteration that writes the block for the voices uploaded so far when a
\* later voice fails
RecordedPartial(file, o) ==
  /\ files' = [files EXCEPT ![file] =
                 IF o.result = "failed" /\ o.effect.upload > 0
                 THEN injectAudioComponent(files[file],
                        VoicesFor(file, SubSeq(voiceIds, 1, o.effect.upload)),
                        generateHash(extractCleanText(files[file]).text)).doc
                 ELSE o.doc]
  /\ storage' = storage \cup o.put
  /\ results' = [results EXCEPT ![file] = o.result]
  /\ effects' = [effects EXCEPT ![file] = o.effect]

\* what one iteration leaves behind: the file, the bucket, the result pushed
Recorded(file, o) ==
  /\ files' = [files EXCEPT ![file] = o.doc]
  /\ storage' = storage \cup o.put
  /\ results' = [results EXCEPT ![file] = o.result]
  /\ effects' = [effects EXCEPT ![file] = o.effect]

\* a file loop that a failing file ends
ProcessNextAbort(failAt) ==
  /\ pc = "generate" /\ queue # << >>
  /\ Recorded(Head(queue), ProcessFile(Head(queue), files[Head(queue)], voiceIds, dryRun, failAt))
  /\ queue' = IF results'[Head(queue)] = "failed" THEN << >> ELSE Tail(queue)
  /\ UNCHANGED << voiceIds, pc, dryRun, start, prev, cleanup, prevCleanup, steps,
                  invocation, exit, config >>
  /\ UNCHANGED << ast, keyOf, injVars, par, s3 >>

\* one iteration of the file loop
ProcessNext(failAt) ==
  /\ pc = "generate" /\ queue # << >>
  /\ Recorded(Head(queue), ProcessFile(Head(queue), files[Head(queue)], voiceIds, dryRun, failAt))
  /\ queue' = Tail(queue)
  /\ UNCHANGED << voiceIds, pc, dryRun, start, prev, cleanup, prevCleanup, steps,
                  invocation, exit, config >>
  /\ UNCHANGED << ast, keyOf, injVars, par, s3 >>

\* the three counts of the summary
Summary(rs) ==
  [successful |-> Cardinality({ f \in Paths : rs[f] = "generated" }),
   skipped |-> Cardinality({ f \in Paths : rs[f] \in {"empty", "unchanged", "dryrun"} }),
   failed |-> Cardinality({ f \in Paths : rs[f] = "failed" })]

\* the summary after the loop; generateCommand returns
FinishGenerate ==
  /\ pc = "generate" /\ queue = << >>
  /\ pc' = "idle"
  /\ exit' = 0
  /\ prev' = [results |-> results, files |-> files, voiceIds |-> voiceIds]
  /\ UNCHANGED << files, storage, voiceIds, queue, dryRun, results, effects, start,
                  cleanup, prevCleanup, steps, invocation, config >>
  /\ UNCHANGED << ast, keyOf, injVars, par, s3 >>

\* a run that deletes the orphans whether or not --dry-run is set
ReconcileWet(dry, fail, scanned, orphaned) ==
  LET rec(st, o, d, after) ==
        [status |-> st, dry |-> dry, orphans |-> o, deleted |-> d, filesAt |-> files,
         storageAt |-> storage, storageAfter |-> after]
  IN IF ~scanned \/ fail = "list"
     THEN cleanup' = rec("failed", {}, {}, storage) /\ storage' = storage
     ELSE IF orphaned = {}
     THEN cleanup' = rec("clean", orphaned, {}, storage) /\ storage' = storage
     ELSE /\ storage' = storage \ orphaned
          /\ cleanup' = rec("deleted", orphaned, orphaned, storage \ orphaned)

\* the run from the orphan filter on; scanned is FALSE if a document's parse
\* threw during the scan
Reconcile(dry, fail, scanned, orphaned) ==
  LET rec(st, o, d, after) ==
        [status |-> st, dry |-> dry, orphans |-> o, deleted |-> d, filesAt |-> files,
         storageAt |-> storage, storageAfter |-> after]
  IN IF ~scanned \/ fail = "list"
     THEN cleanup' = rec("failed", {}, {}, storage) /\ storage' = storage
     ELSE IF orphaned = {}
     THEN cleanup' = rec("clean", orphaned, {}, storage) /\ storage' = storage
     ELSE IF dry
     THEN cleanup' = rec("dry", orphaned, {}, storage) /\ storage' = storage
     ELSE IF fail = "delete"
     THEN cleanup' = rec("failed", orphaned, orphaned, storage) /\ storage' = storage
     ELSE /\ storage' = deleteMultiple(storage, orphaned)
          /\ cleanup' = rec("deleted", orphaned, orphaned, deleteMultiple(storage, orphaned))

\* the invocations of cleanup tried: the storage settings given, or the
\* bucket left out
CleanupInvocations ==
  { [NoInvocation EXCEPT !.cmd = "cleanup"],
    [NoInvocation EXCEPT !.cmd = "cleanup", !.env.S3_BUCKET = Absent] }

\* cleanupCommand; fail names the storage call that throws, if any.  Every
\* throw, resolveConfig's included, goes to the catch, which exits with 1.
CleanupRun(dry, fail, inv) ==
  /\ pc = "idle" /\ steps < MaxSteps
  /\ steps' = steps + 1
  /\ invocation' = inv
  /\ config' = ConfigFor(inv)
  /\ prevCleanup' = cleanup
  /\ Reconcile(dry, fail,
               /\ config'.ok
               /\ \A f \in Paths : extractExistingAudioData(files[f]).ok,
               orphanedKeys(listAllAudioFiles(storage), expectedKeys(files)))
  /\ exit' = IF cleanup'.status = "failed" THEN 1 ELSE 0
  /\ UNCHANGED << files, voiceIds, pc, queue, dryRun, results, effects, start, prev >>
  /\ UNCHANGED << ast, keyOf, injVars, par, s3 >>

\* the author rewrites a paragraph of a document
EditedProse(content) ==
  [n \in DOMAIN content |-> IF content[n].k = "para" THEN Para("t3") ELSE content[n]]

EditProse(file) ==
  /\ pc = "idle" /\ steps < MaxSteps
  /\ EditedProse(files[file]) # files[file]
  /\ files' = [files EXCEPT ![file] = EditedProse(files[file])]
  /\ steps' = steps + 1
  /\ UNCHANGED << storage, voiceIds, pc, queue, dryRun, results, effects, start, prev,
                  cleanup, prevCleanup, invocation, exit, config >>
  /\ UNCHANGED << ast, keyOf, injVars, par, s3 >>

\* the author rewrites the lines of a code block
EditedCode(content) ==
  [n \in DOMAIN content |-> IF content[n].k = "code" THEN Code("c2") ELSE content[n]]

EditCode(file) ==
  /\ pc = "idle" /\ steps < MaxSteps
  /\ EditedCode(files[file]) # files[file]
  /\ files' = [files EXCEPT ![file] = EditedCode(files[file])]
  /\ steps' = steps + 1
  /\ UNCHANGED << storage, voiceIds, pc, queue, dryRun, results, effects, start, prev,
                  cleanup, prevCleanup, invocation, exit, config >>
  /\ UNCHANGED << ast, keyOf, injVars, par, s3 >>

\* the operator changes the configured voice list between two runs
ChangeVoices(ids) ==
  /\ pc = "idle" /\ steps < MaxSteps
  /\ ids # voiceIds
  /\ voiceIds' = ids
  /\ steps' = steps + 1
  /\ UNCHANGED << files, storage, pc, queue, dryRun, results, effects, start, prev,
                  cleanup, prevCleanup, invocation, exit, config >>
  /\ UNCHANGED << ast, keyOf, injVars, par, s3 >>

Next ==
  \/ \E dry \in BOOLEAN, inv \in GenerateInvocations(voiceIds) : StartGenerate(dry, inv)
  \/ \E failAt \in (-1)..(2 * Len(voiceIds) + 1) : ProcessNext(failAt)
  \/ FinishGenerate
  \/ \E dry \in BOOLEAN, fail \in {"none", "list", "delete"}, inv \in CleanupInvocations :
        CleanupRun(dry, fail, inv)
  \/ \E file \in Paths : EditProse(file)
  \/ \E file \in Paths : EditCode(file)
  \/ \E ids \in VoiceIdLists : ChangeVoices(ids)

Spec == Init /\ [][Next]_vars

(* --------------------- the injector on its own ------------------------- *)
GenerateIdle ==
  /\ files = [f \in Paths |-> << >>]
  /\ storage = {}
  /\ voiceIds = << >>
  /\ pc = "idle"
  /\ queue = << >>
  /\ dryRun = FALSE
  /\ results = NoResults
  /\ effects = NoEffects
  /\ start = files
  /\ prev = [results |-> NoResults, files |-> files, voiceIds |-> voiceIds]
  /\ cleanup = NoCleanup
  /\ prevCleanup = NoCleanup
  /\ steps = 0
  /\ invocation = NoInvocation
  /\ exit = -1
  /\ config = NoConfig

InitInject ==
  /\ doc \in Docs
  /\ input = doc
  /\ first = doc
  /\ calls = 0
  /\ args = << << >>, << >> >>
  /\ returned = TRUE
  /\ GenerateIdle
  /\ par = NoPar
  /\ s3 = NoS3
  /\ ast = NoAst
  /\ keyOf = NoKeys

\* one call of injectAudioComponent(doc, voices, hash)
InjectCall(voices, hash) ==
  LET r == injectAudioComponent(doc, voices, hash)
  IN /\ calls < MaxInjects
     /\ returned
     /\ input' = doc
     /\ doc' = r.doc
     /\ returned' = r.ok
     /\ calls' = calls + 1
     /\ args' = << voices, hash >>
     /\ first' = first
     /\ UNCHANGED << ast, keyOf, genVars, par, s3 >>

\* further arrangements a document can have: an import behind the first
\* content, no content at all, the empty document; a hash annotation apart
\* from its tag, behind it, or with another self-closing tag around
Arrangements ==
  { << Heading("t1"), Blank, ImportOther, Blank, Para("t2"), Blank >>,
    << Heading("t1"), Blank, importStatement, Blank, Para("t2"), Blank >>,
    << Fence, Meta, Fence, Blank, Para("t1"), Blank, ImportOther, Blank >>,
    << Blank >>,
    << Fence, Meta, Fence, Blank >>,
    << ImportOther, Blank >>,
    << hashComment(OldHash), Blank, Para("t1"), Blank >> \o componentCode(OldVoices)
       \o << Blank, Para("t2"), Blank >>,
    componentCode(OldVoices) \o << hashComment(OldHash), Blank, Para("t1"), Blank >>,
    << OtherSelf, Blank >> \o OldBlock \o << Blank, Para("t1"), Blank >>,
    << hashComment(OldHash), OtherSelf >> \o componentCode(OldVoices)
       \o << Blank, Para("t1"), Blank >>,
    << importStatement, Blank >> \o OldBlock \o << Blank, OtherSelf, Blank, Para("t1"), Blank >> }

InitArranged ==
  /\ doc \in Arrangements
  /\ input = doc
  /\ first = doc
  /\ calls = 0
  /\ args = << << >>, << >> >>
  /\ returned = TRUE
  /\ GenerateIdle
  /\ par = NoPar
  /\ s3 = NoS3
  /\ ast = NoAst
  /\ keyOf = NoKeys

NextInject == \E voices \in InjVoiceLists, hash \in InjHashes : InjectCall(voices, hash)

SpecInject == InitInject /\ [][NextInject]_vars

SpecArranged == InitArranged /\ [][NextInject]_vars

(* ===================== properties of the injector ====================== *)
CountKind(d, k) == Cardinality({ n \in DOMAIN d : d[n].k = k })
VoiceIdsOf(voices) == [n \in DOMAIN voices |-> voices[n].id]
LastImportIndex(d) ==
  LET S == { n \in DOMAIN d : d[n].k = "import" } IN IF S = {} THEN 0 ELSE SetMax(S)
\* the lines in front of the hash annotation and behind the tag's last line
BeforeBlock(d) == SubSeq(d, 1, FirstOfKind(d, 1, "hash") - 1)
AfterBlock(d) == SubSeq(d, FirstOfKind(d, 1, "tagClose") + 1, Len(d))
\* depth of the component tag in the tree, -1 if the document has none
TagDepth(d) ==
  LET ns == parseMDX(d).nodes
      S == { n \in DOMAIN ns : ns[n].type = "mdxJsxFlowElement" /\ d[ns[n].start].k = "tagOpen" }
  IN IF S = {} THEN -1 ELSE ns[SetMin(S)].depth
HasComponentImport(d) == \E n \in DOMAIN d : IncludesComponentImport(d[n])

Called == calls > 0 /\ returned
FreshPath == Called /\ ~hasAudioComponent(input)
ReplacePath == Called /\ hasAudioComponent(input)

\* C2: locating the block in the output of an injection returns the
\* fingerprint and the voice ids that were injected
C2_RoundTrip ==
  Called =>
    LET e == extractExistingAudioData(doc)
    IN e.ok /\ e.found /\ e.hasHash /\ e.hash = args[2] /\ e.voiceIds = VoiceIdsOf(args[1])

\* C4: a fresh insertion yields import (when added), blank line, hash
\* annotation, component tag in a row, with exactly one blank line in front
\* of the block and exactly one behind it
C4_FreshLayout ==
  FreshPath =>
    LET h == FirstOfKind(doc, 1, "hash")
        c == FirstOfKind(doc, 1, "tagClose")
    IN /\ h > 1 /\ doc[h - 1] = Blank
       /\ (h > 2 => doc[h - 2] # Blank)
       /\ doc[h + 1] = TagOpen
       /\ c < Len(doc) /\ doc[c + 1] = Blank
       /\ (c + 1 < Len(doc) => doc[c + 2] # Blank)
       /\ (~HasComponentImport(input) => h > 2 /\ doc[h - 2] = importStatement)

\* C5: re-injection into a well-placed block changes the hash annotation and
\* the voice payload only; the lines around the block stay as they were
C5_InPlace ==
  (ReplacePath /\ TagDepth(input) = 0 /\ HasComponentImport(input)) =>
    /\ BeforeBlock(doc) = BeforeBlock(input)
    /\ AfterBlock(doc) = AfterBlock(input)

KeysNamedIn(content) ==
  { SubSeq(content[n].v, 3, Len(content[n].v)) :
      n \in { m \in DOMAIN content : content[m].k = "url" } }
UnderPrefix(bucket) == { key \in bucket : key[1] = pathPrefix /\ key[2] = "/" }
Computed(c) == c.status \in {"clean", "dry", "deleted"}

\* C1: a document generated by the previous run, unchanged since, with the
\* same voice list, is skipped as unchanged by the next run: no synthesis,
\* no upload, no write
C1_SecondRunSkips ==
  \A f \in Paths :
    (/\ pc = "generate" /\ results[f] # "none"
     /\ prev.results[f] = "generated"
     /\ start[f] = prev.files[f]
     /\ voiceIds = prev.voiceIds)
    => /\ results[f] = "unchanged"
       /\ effects[f] = NoEffect
       /\ files[f] = start[f]

\* C3: a document that reaches the change detector is skipped as unchanged
\* exactly if a block is found, its fingerprint is the new one and its voice
\* ids are, as a set, the requested ones
C3_UnchangedIff ==
  \A f \in Paths :
    LET clean == extractCleanText(start[f])
        e == extractExistingAudioData(start[f])
    IN (pc = "generate" /\ results[f] # "none" /\ clean.ok /\ clean.text # << >>) =>
         (results[f] = "unchanged" <=>
            /\ e.found /\ e.hasHash
            /\ e.hash = generateHash(clean.text)
            /\ Range(e.voiceIds) = Range(voiceIds))

\* C9: the orphan set is the keys listed under the prefix minus the keys the
\* scanned documents' voice URLs name, and no key a document names is passed
\* to deletion
C9_OrphanSet ==
  LET referenced == UNION { KeysNamedIn(cleanup.filesAt[f]) : f \in DOMAIN cleanup.filesAt }
  IN /\ Computed(cleanup) => cleanup.orphans = UnderPrefix(cleanup.storageAt) \ referenced
     /\ cleanup.deleted \cap referenced = {}

C9_Witness ==
  /\ cleanup.status = "deleted"
  /\ cleanup.deleted # {}
  /\ \E f \in Paths : KeysNamedIn(cleanup.filesAt[f]) \cap cleanup.storageAt # {}
  /\ cleanup.storageAt \ UnderPrefix(cleanup.storageAt) # {}

\* C10: a cleanup run that follows another with documents and storage as the
\* first left them computes the same orphan set, and the empty set if the
\* first deleted its orphans
C10_Idempotent ==
  (/\ Computed(cleanup) /\ Computed(prevCleanup)
   /\ cleanup.filesAt = prevCleanup.filesAt
   /\ cleanup.storageAt = prevCleanup.storageAfter)
  => IF prevCleanup.status = "deleted"
     THEN cleanup.orphans = {}
     ELSE cleanup.orphans = prevCleanup.orphans

C10_Witness ==
  /\ prevCleanup.status = "deleted" /\ prevCleanup.orphans # {}
  /\ cleanup.status = "clean"
  /\ cleanup.filesAt = prevCleanup.filesAt
  /\ cleanup.storageAt = prevCleanup.storageAfter

\* a step of the cleanup command: the only step that counts and leaves the
\* documents, the voice list and the program position alone
IsCleanupStep ==
  /\ pc = "idle" /\ pc' = "idle" /\ steps' # steps
  /\ invocation'.cmd = "cleanup"
  /\ files' = files /\ voiceIds' = voiceIds

\* C11: a dry run changes nothing outside the process: generate --dry-run
\* makes no synthesis, no upload and no write and reports every changed
\* document as a dry-run skip; cleanup --dry-run passes nothing to deletion;
\* documents and storage are as they were
C11_DryRunFrame ==
  [][/\ (pc = "generate" /\ dryRun) =>
          /\ files' = files /\ storage' = storage
          /\ \A f \in Paths :
                /\ effects'[f].synth = 0 /\ effects'[f].upload = 0
                /\ ~effects'[f].written
                /\ results'[f] \in {"none", "empty", "unchanged", "dryrun", "failed"}
                /\ (results'[f] = "failed" => effects'[f].error \in {"read", "extract"})
     /\ (IsCleanupStep /\ cleanup'.dry) =>
          /\ storage' = storage
          /\ cleanup'.deleted = {}
          /\ cleanup'.storageAfter = storage]_vars

C11_Witness ==
  /\ cleanup.dry /\ cleanup.status = "dry" /\ cleanup.orphans # {}
  /\ dryRun /\ \E f \in Paths : results[f] = "dryrun"

\* the voice ids a document's lines carry, in order
IdsWritten(content) ==
  LET ids == SelectSeq(content, LAMBDA l : l.k = "id")
  IN [n \in DOMAIN ids |-> ids[n].v]

\* C12: a document for which a synthesis or an upload failed is recorded as
\* failed and its file is not written, also when earlier voices were
\* uploaded; a file that was written carries all the requested voices
C12_NoPartial ==
  \A f \in Paths :
    (pc = "generate" /\ results[f] # "none") =>
      /\ (effects[f].synth > 0 /\ effects[f].upload < Len(voiceIds)) =>
            /\ results[f] = "failed"
            /\ ~effects[f].written
            /\ files[f] = start[f]
      /\ (files[f] # start[f]) =>
            /\ effects[f].upload = Len(voiceIds)
            /\ IdsWritten(files[f]) = voiceIds

C12_Witness ==
  \E f \in Paths :
    /\ pc = "generate" /\ results[f] = "failed"
    /\ effects[f].upload > 0 /\ effects[f].upload < Len(voiceIds)
    /\ files[f] = start[f]

\* C13: an exception while one file is processed is recorded as that file's
\* failure only: the iteration pushes one result for the file at the head of
\* the list, leaves every other file's result, effects and content alone and
\* goes on to the next file; when the loop is done every file has one
\* result, the three counts of the summary add up to the number of files,
\* and the command returns with exit code 0 whatever failed
C13_FailureIsPerFile ==
  [][/\ (pc = "generate" /\ queue # << >>) =>
          /\ results[Head(queue)] = "none"
          /\ results'[Head(queue)] # "none"
          /\ \A g \in Paths \ {Head(queue)} :
                results'[g] = results[g] /\ effects'[g] = effects[g] /\ files'[g] = files[g]
          /\ pc' = "generate"
          /\ queue' = Tail(queue)
     /\ (pc = "generate" /\ pc' = "idle") =>
          /\ \A f \in Paths : results[f] # "none"
          /\ Summary(results).successful + Summary(results).skipped
                + Summary(results).failed = Len(FileList)
          /\ results' = results
          /\ exit' = 0]_vars

C13_Witness ==
  /\ pc = "idle" /\ invocation.cmd = "generate" /\ exit = 0
  /\ results[FileList[1]] = "failed" /\ effects[FileList[1]].error = "synthesis"
  /\ results[FileList[2]] = "generated"

\* a step that is a run of the generate command up to its file loop
IsGenerateStart ==
  /\ pc = "idle" /\ steps' # steps
  /\ invocation'.cmd = "generate"
  /\ files' = files /\ voiceIds' = voiceIds
\* a required value given neither as a flag nor by the other source the
\* code reads it from
MissingRequired(inv) ==
  \/ inv.cli.apiKey = Absent /\ inv.env.FISH_API_KEY = Absent
  \/ inv.cli.voices = << >> /\ (~inv.yaml.hasVoices \/ inv.yaml.voices = << >>)
  \/ inv.cli.s3Bucket = Absent /\ inv.env.S3_BUCKET = Absent
  \/ inv.cli.s3AccessKeyId = Absent /\ inv.env.S3_ACCESS_KEY_ID = Absent
  \/ inv.cli.s3SecretAccessKey = Absent /\ inv.env.S3_SECRET_ACCESS_KEY = Absent
  \/ inv.cli.s3PublicUrl = Absent /\ inv.env.S3_PUBLIC_URL = Absent

\* C15: a generate command whose API key, voice list or an always-required
\* storage setting is missing fails before any document is found, read or
\* written and before any synthesis or upload: it exits with code 1 and the
\* file loop is never entered
C15_MissingConfigFailsEarly ==
  [][(IsGenerateStart /\ MissingRequired(invocation')) =>
        /\ pc' = "idle"
        /\ exit' = 1
        /\ queue' = queue
        /\ files' = files /\ storage' = storage
        /\ results' = results /\ effects' = effects]_vars

C15_Witness ==
  /\ pc = "idle" /\ exit = 1 /\ invocation.cmd = "generate"
  /\ invocation.cli.voices = << >> /\ ~invocation.yaml.hasVoices
  /\ invocation.env.FISH_API_KEY # Absent

(* ================== resolving the configuration on its own ============= *)
\* each value given or not by each of its sources, with a different value
\* per source; cleanup has no --component-import and no --voices
ConfigInvocations ==
  { inv \in
      [cmd : {"generate", "cleanup"},
       cli : { [NoInvocation.cli EXCEPT !.componentName = cn, !.componentImport = ci,
                             !.s3Region = r, !.s3Bucket = b, !.voices = v] :
                 cn \in {Absent, "CliPlayer"}, ci \in {Absent, "/cli.jsx"},
                 r \in {Absent, "cli-region"}, b \in {Absent, "cli-bucket"},
                 v \in {<< >>, << "v1" >>} },
       env : { [NoInvocation.env EXCEPT !.S3_REGION = r, !.S3_BUCKET = b] :
                 r \in {Absent, "env-region"}, b \in {Absent, "bucket"} },
       yaml : { [hasVoices |-> v # << >>, voices |-> v, componentImport |-> ci,
                 componentName |-> cn] :
                  v \in {<< >>, << "v2" >>}, ci \in {Absent, "/yaml.jsx"},
                  cn \in {Absent, "YamlPlayer"} }] :
      inv.cmd = "cleanup" => inv.cli.componentImport = Absent /\ inv.cli.voices = << >> }

\* a command resolves its configuration
ResolveCall(inv) ==
  /\ invocation.cmd = "none"
  /\ invocation' = inv
  /\ config' = ConfigFor(inv)
  /\ exit' = IF config'.ok THEN -1 ELSE 1
  /\ UNCHANGED << files, storage, voiceIds, pc, queue, dryRun, results, effects, start,
                  prev, cleanup, prevCleanup, steps >>
  /\ UNCHANGED << ast, keyOf, injVars, par, s3 >>

\* nothing has run
InitIdle ==
  InjectIdle /\ GenerateIdle /\ par = NoPar /\ s3 = NoS3 /\ ast = NoAst /\ keyOf = NoKeys

SpecConfig ==
  /\ InitIdle
  /\ [][\E inv \in ConfigInvocations : ResolveCall(inv)]_vars

\* the first of the values that is given
FirstGiven(values) ==
  LET S == { n \in DOMAIN values : values[n] # Absent }
  IN IF S = {} THEN Absent ELSE values[SetMin(S)]

\* C20: a resolved value is the one given by the first of command line,
\* environment, speaker-config.yaml and built-in default that gives one; the
\* component name and import path are the YAML file's when the flags are
\* not on the command line
C20_Priority ==
  (invocation.cmd # "none" /\ config.ok) =>
    /\ config.componentName =
         FirstGiven(<< invocation.cli.componentName, invocation.yaml.componentName,
                       "AudioTranscript" >>)
    /\ config.componentImport =
         FirstGiven(<< invocation.cli.componentImport, invocation.yaml.componentImport,
                       "/snippets/audio-transcript.jsx" >>)
    /\ config.s3Region =
         FirstGiven(<< invocation.cli.s3Region, invocation.env.S3_REGION, "us-east-1" >>)
    /\ config.s3Bucket = FirstGiven(<< invocation.cli.s3Bucket, invocation.env.S3_BUCKET >>)
    /\ config.voiceIds = IF invocation.cli.voices # << >> THEN invocation.cli.voices
                         ELSE invocation.yaml.voices

(* ============ one document, its voices processed in parallel =========== *)
(* generateMultipleVoices and uploadMultipleVoices start one task per      *)
(* voice and await Promise.all of them; the tasks settle in any order.  An *)
(* action is the settling of one task together with the continuation of    *)
(* generateCommand it releases, if any.  Tasks still pending when          *)
(* Promise.all rejects go on and settle later.                             *)

\* a Promise.all that is fulfilled by the first task that is
Fulfilled(tasks) == \E k \in DOMAIN tasks : tasks[k] = "resolved"

\* Promise.all is fulfilled: every task is
AllFulfilled(tasks) == \A k \in DOMAIN tasks : tasks[k] = "resolved"

\* config.voiceIds.map((id, idx) => ({ id, name, url: audioUrls.get(id) || '' }))
ParVoices(filePath, ids, upload) ==
  [idx \in DOMAIN ids |->
     Voice(ids[idx], idx,
           IF upload[ids[idx]] = "resolved"
           THEN uploadedUrl(generateKey(filePath, ids[idx])) ELSE << >>)]

\* the file loop reaches the synthesis of a document with narratable text
ParStart(file) ==
  /\ par.phase = "off"
  /\ extractCleanText(files[file]).ok /\ extractCleanText(files[file]).text # << >>
  /\ par' = [phase |-> "synth", file |-> file,
             synth |-> [i \in DOMAIN voiceIds |-> "pending"],
             upload |-> << >>, writes |-> 0]
  /\ UNCHANGED << ast, keyOf, injVars, genVars, s3 >>

\* the synthesis of the i-th voice settles; the last to resolve releases
\* uploadMultipleVoices, which starts one upload per entry of the map
SynthSettle(i, ok) ==
  LET synth == [par.synth EXCEPT ![i] = IF ok THEN "resolved" ELSE "rejected"]
  IN /\ par.phase # "off" /\ i \in DOMAIN par.synth /\ par.synth[i] = "pending"
     /\ par' = IF par.phase = "synth" /\ ~ok
               THEN [par EXCEPT !.synth = synth, !.phase = "failed"]
               ELSE IF par.phase = "synth" /\ AllFulfilled(synth)
               THEN [par EXCEPT !.synth = synth, !.phase = "upload",
                                !.upload = [id \in Range(voiceIds) |-> "pending"]]
               ELSE [par EXCEPT !.synth = synth]
     /\ UNCHANGED << ast, keyOf, injVars, genVars, s3 >>

\* what the settling of an upload leaves behind; injected is the document
\* with the block for the URLs received so far
UploadSettled(upload, ok, key, injected) ==
  /\ storage' = IF ok THEN storage \cup {key} ELSE storage
  /\ IF par.phase = "upload" /\ ~ok
     THEN par' = [par EXCEPT !.upload = upload, !.phase = "failed"] /\ files' = files
     ELSE IF par.phase = "upload" /\ AllFulfilled(upload)
     THEN IF injected.ok
          THEN /\ files' = [files EXCEPT ![par.file] = injected.doc]
               /\ par' = [par EXCEPT !.upload = upload, !.phase = "done",
                                     !.writes = @ + 1]
          ELSE par' = [par EXCEPT !.upload = upload, !.phase = "failed"] /\ files' = files
     ELSE par' = [par EXCEPT !.upload = upload] /\ files' = files

\* the upload for voice id settles; the last to resolve releases the
\* injection and the write
UploadSettle(id, ok) ==
  /\ par.phase # "off" /\ id \in DOMAIN par.upload /\ par.upload[id] = "pending"
  /\ UploadSettled([par.upload EXCEPT ![id] = IF ok THEN "resolved" ELSE "rejected"],
                   ok, generateKey(par.file, id),
                   injectAudioComponent(
                     files[par.file],
                     ParVoices(par.file, voiceIds,
                               [par.upload EXCEPT ![id] = IF ok THEN "resolved"
                                                          ELSE "rejected"]),
                     generateHash(extractCleanText(files[par.file]).text)))
  /\ UNCHANGED << voiceIds, pc, queue, dryRun, results, effects, start, prev, cleanup,
                  prevCleanup, steps, invocation, exit, config >>
  /\ UNCHANGED << ast, keyOf, injVars, s3 >>

SpecVoices ==
  /\ Init
  /\ [][\/ \E file \in Paths : ParStart(file)
        \/ \E i \in 1..2, ok \in BOOLEAN : SynthSettle(i, ok)
        \/ \E id \in {"v1", "v2"}, ok \in BOOLEAN : UploadSettle(id, ok)]_vars

UrlsWritten(content) ==
  LET urls == SelectSeq(content, LAMBDA l : l.k = "url")
  IN [n \in DOMAIN urls |-> urls[n].v]

\* C14: however the synthesis and upload tasks of a document interleave and
\* in whatever order they settle, the document is written only once every
\* requested voice has been synthesised and uploaded, it is written at most
\* once, and the voices written are the requested ids in the requested
\* order, each with its URL
C14_WrittenAfterAll ==
  /\ par.writes <= 1
  /\ (par.phase # "off" /\ (par.writes > 0 \/ files[par.file] # start[par.file])) =>
        /\ par.writes = 1
        /\ \A i \in DOMAIN voiceIds : par.synth[i] = "resolved"
        /\ \A i \in DOMAIN voiceIds : par.upload[voiceIds[i]] = "resolved"
        /\ IdsWritten(files[par.file]) = voiceIds
        /\ UrlsWritten(files[par.file])
             = [i \in DOMAIN voiceIds |-> uploadedUrl(generateKey(par.file, voiceIds[i]))]

C14_Witness ==
  /\ par.phase = "done" /\ par.writes = 1
  /\ voiceIds = << "v2", "v1" >>
  /\ IdsWritten(files[par.file]) = << "v2", "v1" >>
  /\ files[par.file] # start[par.file]

(* ================== the storage client's request loops ================= *)
(* Keys are numbered: the list handed to deleteMultiple is 1..n, a listing *)
(* is 1..n cut into pages.  A continuation token is the number of pages    *)
(* already returned; 0 is the absent (undefined) token.                    *)
batchSize == 1000

\* keys.slice(from) : everything from there on
sliceToEnd(arr, from, to) == SubSeq(arr, from + 1, Len(arr))

\* keys.slice(from, to)
slice(arr, from, to) ==
  SubSeq(arr, from + 1, IF to < Len(arr) THEN to ELSE Len(arr))

\* deleteMultiple(keys) up to its loop: returns at once for an empty list
DeleteCall(n) ==
  /\ s3.op = "none"
  /\ s3' = [op |-> "delete", keys |-> [k \in 1..n |-> k], i |-> 0, sent |-> << >>,
            status |-> IF n = 0 THEN "returned" ELSE "running"]
  /\ UNCHANGED << ast, keyOf, injVars, genVars, par >>

\* one iteration of its loop: the batch is sent; the loop ends when the send
\* throws or i has reached the end of the list
DeleteSend(ok) ==
  /\ s3.op = "delete" /\ s3.status = "running"
  /\ s3' = [s3 EXCEPT !.sent = Append(@, slice(s3.keys, s3.i, s3.i + batchSize)),
                      !.i = @ + batchSize,
                      !.status = IF ~ok THEN "failed"
                                 ELSE IF s3.i + batchSize < Len(s3.keys) THEN "running"
                                 ELSE "returned"]
  /\ UNCHANGED << ast, keyOf, injVars, genVars, par >>

RECURSIVE PagesOf(_, _)
\* the keys from `from` on, cut into pages of the given sizes
PagesOf(sizes, from) ==
  IF sizes = << >> THEN << >>
  ELSE << [k \in 1..Head(sizes) |-> from + k - 1] >>
       \o PagesOf(Tail(sizes), from + Head(sizes))

\* the bucket's answer to ListObjectsV2 with a continuation token
ListObjectsV2(pages, token) ==
  [Contents |-> pages[token + 1],
   NextContinuationToken |-> IF token + 1 < Len(pages) THEN token + 1 ELSE 0]

\* listAllAudioFiles() up to its loop
ListCall(pages) ==
  /\ s3.op = "none"
  /\ s3' = [op |-> "list", pages |-> pages, continuationToken |-> 0, allKeys |-> << >>,
            requests |-> << >>, status |-> "running"]
  /\ UNCHANGED << ast, keyOf, injVars, genVars, par >>

\* a listing loop that stops after its first page
ListPageOnce(ok) ==
  /\ s3.op = "list" /\ s3.status = "running"
  /\ s3' = [s3 EXCEPT !.requests = Append(@, s3.continuationToken),
                      !.allKeys = @ \o ListObjectsV2(s3.pages, s3.continuationToken).Contents,
                      !.status = IF ok THEN "returned" ELSE "failed"]
  /\ UNCHANGED << ast, keyOf, injVars, genVars, par >>

\* one iteration of its loop: a page is requested with the token of the
\* response before; the loop ends when the send throws or the response
\* carries no token
ListPage(ok) ==
  /\ s3.op = "list" /\ s3.status = "running"
  /\ s3' = IF ~ok
           THEN [s3 EXCEPT !.requests = Append(@, s3.continuationToken),
                           !.status = "failed"]
           ELSE [s3 EXCEPT
                   !.requests = Append(@, s3.continuationToken),
                   !.allKeys = @ \o ListObjectsV2(s3.pages, s3.continuationToken).Contents,
                   !.continuationToken =
                      ListObjectsV2(s3.pages, s3.continuationToken).NextContinuationToken,
                   !.status =
                      IF ListObjectsV2(s3.pages, s3.continuationToken).NextContinuationToken # 0
                      THEN "running" ELSE "returned"]
  /\ UNCHANGED << ast, keyOf, injVars, genVars, par >>

\* The key lists tried have lengths around every multiple of the batch
\* size; the listings tried have one to MaxPages pages, any of them empty.
\* The loops go on as long as their awaits settle.
SpecS3 ==
  /\ InitIdle
  /\ [][\/ \E b \in 0..MaxBatches, d \in {-1, 0, 1} :
             b * batchSize + d >= 0 /\ DeleteCall(b * batchSize + d)
        \/ \E ok \in BOOLEAN : DeleteSend(ok)
        \/ \E p \in 1..MaxPages :
             \E sizes \in [1..p -> 0..MaxPageSize] : ListCall(PagesOf(sizes, 1))
        \/ \E ok \in BOOLEAN : ListPage(ok)]_vars
  /\ WF_vars(\E ok \in BOOLEAN : ListPage(ok))

RECURSIVE Concat(_)
Concat(seqs) == IF seqs = << >> THEN << >> ELSE Head(seqs) \o Concat(Tail(seqs))

\* C16: deleteMultiple sends no request for an empty list; otherwise every
\* request carries between 1 and 1000 keys, the batches sent so far are, in
\* order, a prefix of the list, and when the call returns it has sent
\* ceil(n/1000) requests that together are the whole list
C16_Batches ==
  (s3.op = "delete") =>
    /\ \A b \in DOMAIN s3.sent : Len(s3.sent[b]) >= 1 /\ Len(s3.sent[b]) <= 1000
    /\ Concat(s3.sent) = SubSeq(s3.keys, 1, Len(Concat(s3.sent)))
    /\ (s3.keys = << >>) => (s3.sent = << >> /\ s3.status = "returned")
    /\ (s3.status = "returned") =>
          /\ Len(s3.sent) = (Len(s3.keys) + 999) \div 1000
          /\ Concat(s3.sent) = s3.keys

C16_Witness ==
  /\ s3.op = "delete" /\ s3.status = "returned"
  /\ Len(s3.keys) = 1001 /\ Len(s3.sent) = 2 /\ Len(s3.sent[2]) = 1

\* C17: listAllAudioFiles sends its first request without a token and every
\* further one with the token of the response before; it goes on exactly
\* while the last response carried a token, returns the keys of all pages
\* in order, and a call on a listing that has a last page ends
C17_Pagination ==
  /\ [](s3.op = "list" =>
          /\ \A r \in DOMAIN s3.requests :
                s3.requests[r] =
                  IF r = 1 THEN 0
                  ELSE ListObjectsV2(s3.pages, s3.requests[r - 1]).NextContinuationToken
          /\ (s3.status = "running") =>
                (s3.requests = << >> \/ s3.continuationToken # 0)
          /\ (s3.status = "returned") =>
                /\ s3.continuationToken = 0
                /\ Len(s3.requests) = Len(s3.pages)
                /\ s3.allKeys = Concat(s3.pages))
  /\ (s3.op = "list") ~> (s3.op = "list" /\ s3.status # "running")

C17_Witness ==
  /\ s3.op = "list" /\ s3.status = "returned"
  /\ Len(s3.pages) = 3 /\ s3.pages[2] = << >> /\ Len(s3.allKeys) = 4

\* two documents the extractor accepts that are the same but for lines of
\* the given kinds, and differ in at least one of those
DifferOnlyIn(d, e, kinds) ==
  /\ Len(d) = Len(e) /\ d # e
  /\ extractCleanText(d).ok /\ extractCleanText(e).ok
  /\ \A n \in DOMAIN d : d[n] # e[n] => (d[n].k \in kinds /\ e[n].k = d[n].k)

MatchEnd(lines, i, pattern) ==
  IF pattern = "import"
  THEN IF IncludesComponentImport(lines[i]) THEN i ELSE 0
  ELSE LET braces == { n \in (i + 1)..Len(lines) :
                         lines[n].k \in {"objClose", "tagClose", "hash"} }
       IN IF IncludesComponentTag(lines[i]) /\ braces # {}
             /\ lines[SetMin(braces)].k = "tagClose"
          THEN SetMin(braces) ELSE 0

RECURSIVE Replaced(_, _, _, _)
\* content.replace(regex, '') from line i on; eat is TRUE behind a match,
\* whose trailing \s* is taking blank lines
Replaced(lines, i, pattern, eat) ==
  IF i > Len(lines) THEN << >>
  ELSE IF eat /\ TrimIsEmpty(lines[i]) THEN Replaced(lines, i + 1, pattern, TRUE)
  ELSE IF MatchEnd(lines, i, pattern) = 0
  THEN << lines[i] >> \o Replaced(lines, i + 1, pattern, FALSE)
  ELSE Replaced(lines, MatchEnd(lines, i, pattern) + 1, pattern, TRUE)

removeAudioComponent(mdxContent) ==
  Replaced(Replaced(mdxContent, 1, "import", FALSE), 1, "component", FALSE)

\* C19: removing the component from a document the injector produced for a
\* non-empty voice list leaves neither an import of the component nor an
\* opening tag of it
C19_Removed ==
  Called =>
    /\ ~HasComponentImport(removeAudioComponent(doc))
    /\ ~hasAudioComponent(removeAudioComponent(doc))

(* ============ placement and frame of the injector's edits ============== *)
\* the line of the first heading, paragraph or JSX element of a document
\* outside its front matter, 0 if it has none
FirstContent(d) ==
  LET S == { n \in (FrontmatterEnd(d) + 1)..Len(d) :
               d[n].k \in {"heading", "para", "open", "self", "tagOpen"} }
  IN IF S = {} THEN 0 ELSE SetMin(S)
\* the first line behind line n that is not blank, 0 if none
NextNonBlank(d, n) ==
  LET S == { m \in (n + 1)..Len(d) : d[m].k # "blank" } IN IF S = {} THEN 0 ELSE SetMin(S)

\* C21: a fresh insertion puts the hash annotation and the tag directly in
\* front of the first heading, paragraph or component of the document: no
\* content line is in front of the block and the first line behind it that
\* is not blank is that content; without content the block is behind the
\* front matter and the imports
C21_BeforeFirstContent ==
  FreshPath =>
    LET h == FirstOfKind(doc, 1, "hash")
        c == FirstOfKind(doc, 1, "tagClose")
    IN /\ h > 0 /\ c > h
       /\ \A n \in 1..(h - 1) : doc[n].k \in {"fence", "meta", "import", "blank"}
       /\ (FirstContent(input) > 0) =>
             /\ NextNonBlank(doc, c) > 0
             /\ doc[NextNonBlank(doc, c)] = input[FirstContent(input)]
       /\ (FirstContent(input) = 0) => NextNonBlank(doc, c) = 0

\* C22: a block that is removed and re-inserted goes where the insert rule
\* puts it: directly behind the last import line if the document has an
\* import, else behind the front matter if it has one, else at the top; a
\* document with front matter keeps it in front of the block
C22_ReinsertedByRule ==
  ReplacePath =>
    LET h == FirstOfKind(doc, 1, "hash")
    IN /\ h > 1 /\ doc[h - 1] = Blank
       /\ IF LastImportIndex(input) > 0
          THEN h > 2 /\ h - 2 = LastImportIndex(doc)
          ELSE IF FrontmatterEnd(input) > 0
          THEN h - 2 = FrontmatterEnd(doc)
          ELSE h = 2
       /\ (FrontmatterEnd(input) > 0) =>
             /\ FrontmatterEnd(doc) = FrontmatterEnd(input)
             /\ h > FrontmatterEnd(doc)

BlockKinds == {"hash", "tagOpen", "objOpen", "id", "name", "url", "objClose", "tagClose"}
OutsideBlock(d) == SelectSeq(d, LAMBDA l : l.k \notin BlockKinds \cup {"blank"})

\* C23: replacing or relocating a block removes the old hash line and the old
\* tag lines and nothing else: the document keeps one hash line and one tag,
\* and every other line of the input is in the output in the same order
C23_ReplaceFrame ==
  ReplacePath =>
    /\ CountKind(doc, "hash") = 1
    /\ CountKind(doc, "tagClose") = 1
    /\ OutsideBlock(doc) = OutsideBlock(input)

(* --------------------------- remarkRemoveJSX --------------------------- *)
\* a node of the syntax tree: its type, its children, and its text if it is
\* a text node
TreeNode(type, children) == [type |-> type, value |-> "", children |-> children]
Text(value) == [type |-> "text", value |-> value, children |-> << >>]

JSXTypes ==
  {"mdxJsxFlowElement", "mdxJsxTextElement", "mdxFlowExpression", "mdxTextExpression"}

\* what the visitor does with a node: whether it splices the node out of
\* its parent, and what it returns, [SKIP, index] or nothing
visitorNoIndex(node, index, hasParent) ==
  IF node.type \in JSXTypes /\ hasParent
  THEN [splice |-> TRUE, result |-> << "skip" >>]
  ELSE [splice |-> FALSE, result |-> << >>]
visitor(node, index, hasParent) ==
  IF node.type \in JSXTypes /\ hasParent
  THEN [splice |-> TRUE, result |-> << "skip", index >>]
  ELSE [splice |-> FALSE, result |-> << >>]

\* unist-util-visit over the children of one parent, from `offset` on: the
\* visitor is called on the child at `offset`, the child's own children are
\* walked unless it returned SKIP, and the walk goes on at the index it
\* returned, or at the next one. Indices are from 1.
RECURSIVE visitChildren(_, _)
visitChildren(children, offset) ==
  IF offset > Len(children) THEN children
  ELSE LET child == children[offset]
           r == visitor(child, offset, TRUE)
           spliced == IF r.splice
                      THEN SubSeq(children, 1, offset - 1)
                             \o SubSeq(children, offset + 1, Len(children))
                      ELSE children
           walked == IF Len(r.result) > 0 /\ r.result[1] = "skip" THEN spliced
                     ELSE [spliced EXCEPT ![offset].children = visitChildren(child.children, 1)]
       IN visitChildren(walked, IF Len(r.result) = 2 THEN r.result[2] ELSE offset + 1)

\* the root has no parent and is never spliced out
remarkRemoveJSX(tree) ==
  IF Len(visitor(tree, 0, FALSE).result) > 0 THEN tree
  ELSE [tree EXCEPT !.children = visitChildren(tree.children, 1)]

\* the trees transformed: a root with up to MaxChildren flow nodes, among
\* them paragraphs with adjacent inline elements and expressions, an element
\* with content of its own, and a quote holding elements two levels down
FlowNodes ==
  LET JsxText == TreeNode("mdxJsxTextElement", << Text("j") >>)
      TextExpr == TreeNode("mdxTextExpression", << >>)
  IN
  { TreeNode("paragraph", << Text("a") >>),
    TreeNode("paragraph", << JsxText, TextExpr, Text("b"), JsxText >>),
    TreeNode("mdxJsxFlowElement", << TreeNode("paragraph", << Text("c"), JsxText >>) >>),
    TreeNode("mdxFlowExpression", << >>),
    TreeNode("blockquote",
         << TreeNode("mdxJsxFlowElement", << >>), TreeNode("mdxFlowExpression", << >>),
            TreeNode("paragraph", << Text("d"), TextExpr, JsxText, Text("e") >>) >>) }
MaxChildren == 3
Trees ==
  { TreeNode("root", ch) : ch \in UNION { [1..n -> FlowNodes] : n \in 0..MaxChildren } }

InitTree ==
  /\ InjectIdle /\ GenerateIdle /\ par = NoPar /\ s3 = NoS3 /\ keyOf = NoKeys
  /\ ast \in { [phase |-> "parsed", tree |-> t, out |-> t] : t \in Trees }

Transform ==
  /\ ast.phase = "parsed"
  /\ ast' = [ast EXCEPT !.phase = "transformed", !.out = remarkRemoveJSX(ast.tree)]
  /\ UNCHANGED << keyOf, injVars, genVars, par, s3 >>

SpecTree == InitTree /\ [][Transform]_vars

\* the tree without the nodes of the four types and what is below them
RECURSIVE Purged(_)
Purged(node) ==
  LET kept == SelectSeq(node.children, LAMBDA c : c.type \notin JSXTypes)
  IN [node EXCEPT !.children = [i \in 1..Len(kept) |-> Purged(kept[i])]]
RECURSIVE TypesIn(_)
TypesIn(node) ==
  {node.type} \cup UNION { TypesIn(node.children[i]) : i \in 1..Len(node.children) }

\* C24: the transformer takes out every element and expression node that
\* has a parent, with all that is below it, also when such nodes are
\* neighbours or lie nested, and leaves the other nodes in their order
C24_AllJSXRemoved ==
  (ast.phase = "transformed") =>
    /\ ast.out = Purged(ast.tree)
    /\ TypesIn(ast.out) \cap JSXTypes = {}
\* neighbouring elements in a paragraph and elements in a quote were removed
C24_Witness ==
  /\ ast.phase = "transformed"
  /\ \E i \in 1..Len(ast.tree.children) :
       /\ ast.tree.children[i].type = "paragraph"
       /\ Len(ast.tree.children[i].children) = 4
  /\ \E i \in 1..Len(ast.tree.children) : ast.tree.children[i].type = "blockquote"
  /\ \E i \in 1..Len(ast.out.children) :
       /\ ast.out.children[i].type = "blockquote"
       /\ ast.out.children[i].children = << TreeNode("paragraph", << Text("d"), Text("e") >>) >>

\* the objects an earlier generation wrote for a document, where the bucket
\* was seeded with them: the seed's foreign object is never written or
\* deleted by the tool, so it tells the seed
EarlierObjects(f) ==
  IF << "other", "/", "keep.bin" >> \in storage
  THEN { generateKey(f, id) : id \in {"v1", "v2"} } \cap UNION SeedStorages
  ELSE {}
ScanOk(fs) == \A f \in Paths : extractExistingAudioData(fs[f]).ok

\* C25: a document whose narration block was removed by hand is not skipped
\* by the next generate run but gets audio for every configured voice, and a
\* reconciliation pass after that run reports the objects of the earlier
\* generation as orphans
C25_RegeneratedAndOrphaned ==
  \A f \in Paths :
    (~hasAudioComponent(start[f]) /\ EarlierObjects(f) # {}) =>
      /\ results[f] # "unchanged"
      /\ (pc = "generate" /\ results[f] = "generated") =>
            /\ effects[f].synth = Len(voiceIds)
            /\ effects[f].upload = Len(voiceIds)
      /\ (pc = "idle" /\ invocation.cmd = "cleanup" /\ config.ok
            /\ results[f] = "generated") =>
            /\ ScanOk(cleanup.filesAt)
            /\ Computed(cleanup) => EarlierObjects(f) \subseteq cleanup.orphans

\* C26: the text extracted from the document an injection returns is the
\* text extracted from the document it was given (import, hash annotation
\* and tag add nothing), so the fingerprint of the text before is the
\* fingerprint of the text after
C26_TextUnchanged ==
  (Called /\ extractCleanText(input).ok) =>
    /\ extractCleanText(doc).ok
    /\ extractCleanText(doc).text = extractCleanText(input).text
    /\ generateHash(extractCleanText(doc).text) = generateHash(extractCleanText(input).text)

\* C27: regeneration does not grow the document: a call with a voice list
\* as long as the one before leaves the number of lines as it was, and a
\* call with the voices and fingerprint the block already holds returns the
\* document as it was given
C27_NoGrowth ==
  (ReplacePath /\ calls > 1) =>
    /\ (Len(args[1]) = CountKind(input, "id")) => Len(doc) = Len(input)
    /\ (<< hashComment(args[2]) >> \o componentCode(args[1])
          = SubSeq(input, FirstOfKind(input, 1, "hash"),
                   FirstOfKind(input, 1, "tagClose"))) => doc = input

\* C28: for each voice a generate run wrote into a document, the key
\* extracted from its URL, with the public URL given with or without its
\* trailing slash, is the key the audio was uploaded under; and a cleanup
\* run that follows a generate run in which no document failed counts none
\* of the objects that run uploaded as an orphan
C28_KeyRoundTrip ==
  /\ \A f \in Paths :
       (pc = "generate" /\ results[f] = "generated") =>
         \A pub \in { publicUrl, StripSlash(publicUrl) } :
           /\ Len(UrlsWritten(files[f])) = Len(voiceIds)
           /\ \A n \in DOMAIN voiceIds :
                /\ extractKeyFromUrl(UrlsWritten(files[f])[n], pub) = generateKey(f, voiceIds[n])
                /\ generateKey(f, voiceIds[n]) \in storage
  /\ (/\ pc = "idle" /\ invocation.cmd = "cleanup"
      /\ \A f \in Paths : results[f] \in {"generated", "unchanged", "empty"}) =>
        \A f \in Paths :
          results[f] = "generated" =>
            { generateKey(f, id) : id \in Range(IdsWritten(files[f])) } \cap cleanup.orphans = {}
\* a cleanup run after such a generate run found orphans, none of them an
\* object of the document just generated
C28_Witness ==
  /\ pc = "idle" /\ invocation.cmd = "cleanup" /\ Computed(cleanup)
  /\ \A f \in Paths : results[f] \in {"generated", "unchanged"}
  /\ cleanup.orphans # {}
  /\ \E f \in Paths :
       /\ results[f] = "generated"
       /\ IdsWritten(files[f]) = << "v1", "v2" >>
       /\ { generateKey(f, "v1"), generateKey(f, "v2") } \subseteq cleanup.storageAt

(* ------------------- the cleanup command, step by step ----------------- *)
\* the documents a cleanup run may find: without a block, with a block, and
\* one the MDX parser rejects (the block directly under an import line)
CleanupDocs ==
  { PlainDoc, NarratedDoc,
    << importStatement, hashComment(TextHash) >>
      \o componentCode(VoicesFor(<< "b", "y" >>, << "v1" >>)) \o << Blank, Para("t1"), Blank >> }

InitCleanup ==
  /\ InjectIdle /\ par = NoPar /\ s3 = NoS3 /\ ast = NoAst /\ keyOf = NoKeys
  /\ files \in [Paths -> CleanupDocs]
  /\ storage \in SeedStorages
  /\ voiceIds = << >> /\ pc = "idle" /\ queue = << >> /\ dryRun = FALSE
  /\ results = NoResults /\ effects = NoEffects /\ start = files
  /\ prev = [results |-> NoResults, files |-> files, voiceIds |-> voiceIds]
  /\ cleanup = NoCleanup /\ prevCleanup = NoCleanup
  /\ steps = 0 /\ invocation = NoInvocation /\ exit = -1 /\ config = NoConfig

\* cleanupCommand up to the scan loop: matched is what findMDXFiles returns;
\* with no file the command returns at once
CleanupStart(dry, matched) ==
  /\ pc = "idle" /\ cleanup.status = "none"
  /\ dryRun' = dry
  /\ LET begun == [status |-> "scanning", dry |-> dry, orphans |-> {}, deleted |-> {},
                   filesAt |-> files, storageAt |-> storage, storageAfter |-> storage,
                   matched |-> matched, scanned |-> << >>, expected |-> {},
                   listed |-> FALSE, error |-> "none"]
     IN IF matched = << >>
        THEN cleanup' = [begun EXCEPT !.status = "nofiles"]
             /\ pc' = "idle" /\ exit' = 0 /\ queue' = << >>
        ELSE cleanup' = begun /\ pc' = "scan" /\ exit' = -1 /\ queue' = matched
  /\ UNCHANGED << files, storage, voiceIds, results, effects, start, prev, prevCleanup,
                  steps, invocation, config >>
  /\ UNCHANGED << ast, keyOf, injVars, par, s3 >>

\* a scan loop that passes over a document it cannot read or parse
ScanNextSkip(readOk) ==
  /\ pc = "scan" /\ queue # << >>
  /\ IF readOk /\ extractExistingAudioData(files[Head(queue)]).ok
     THEN cleanup' = [cleanup EXCEPT
                        !.scanned = Append(@, Head(queue)),
                        !.expected = @ \cup referencedKeys(files[Head(queue)])]
     ELSE cleanup' = cleanup
  /\ queue' = Tail(queue)
  /\ UNCHANGED << files, storage, voiceIds, pc, dryRun, results, effects, start, prev,
                  prevCleanup, steps, invocation, exit, config >>
  /\ UNCHANGED << ast, keyOf, injVars, par, s3 >>

\* one iteration of the scan loop: the document read and its block
\* extracted, the keys of its voice URLs added to the expected keys; a throw
\* of readFile or of the parser goes to the catch, which exits with 1
ScanNext(readOk) ==
  /\ pc = "scan" /\ queue # << >>
  /\ IF readOk /\ extractExistingAudioData(files[Head(queue)]).ok
     THEN /\ cleanup' = [cleanup EXCEPT
                           !.scanned = Append(@, Head(queue)),
                           !.expected = @ \cup referencedKeys(files[Head(queue)])]
          /\ queue' = Tail(queue)
          /\ UNCHANGED << pc, exit >>
     ELSE /\ cleanup' = [cleanup EXCEPT !.status = "failed",
                                        !.error = IF readOk THEN "parse" ELSE "read"]
          /\ pc' = "idle" /\ exit' = 1
          /\ UNCHANGED queue
  /\ UNCHANGED << files, storage, voiceIds, dryRun, results, effects, start, prev,
                  prevCleanup, steps, invocation, config >>
  /\ UNCHANGED << ast, keyOf, injVars, par, s3 >>

\* after the loop: the listing, the orphan filter, and the return when there
\* is no orphan or the run is a dry run
ListAndFilter(ok) ==
  /\ pc = "scan" /\ queue = << >>
  /\ IF ~ok
     THEN /\ cleanup' = [cleanup EXCEPT !.status = "failed", !.error = "list"]
          /\ pc' = "idle" /\ exit' = 1
     ELSE IF orphanedKeys(listAllAudioFiles(storage), cleanup.expected) = {}
     THEN /\ cleanup' = [cleanup EXCEPT !.status = "clean", !.listed = TRUE]
          /\ pc' = "idle" /\ exit' = 0
     ELSE IF dryRun
     THEN /\ cleanup' = [cleanup EXCEPT
                           !.status = "dry", !.listed = TRUE,
                           !.orphans = orphanedKeys(listAllAudioFiles(storage), cleanup.expected)]
          /\ pc' = "idle" /\ exit' = 0
     ELSE /\ cleanup' = [cleanup EXCEPT
                           !.status = "deleting", !.listed = TRUE,
                           !.orphans = orphanedKeys(listAllAudioFiles(storage), cleanup.expected)]
          /\ pc' = "delete" /\ exit' = -1
  /\ UNCHANGED << files, storage, voiceIds, queue, dryRun, results, effects, start, prev,
                  prevCleanup, steps, invocation, config >>
  /\ UNCHANGED << ast, keyOf, injVars, par, s3 >>

\* await s3Uploader.deleteMultiple(orphanedKeys)
DeleteOrphans(ok) ==
  /\ pc = "delete"
  /\ IF ok
     THEN /\ storage' = deleteMultiple(storage, cleanup.orphans)
          /\ cleanup' = [cleanup EXCEPT !.status = "deleted", !.deleted = cleanup.orphans,
                                        !.storageAfter = deleteMultiple(storage, cleanup.orphans)]
          /\ exit' = 0
     ELSE /\ storage' = storage
          /\ cleanup' = [cleanup EXCEPT !.status = "failed", !.error = "delete",
                                        !.deleted = cleanup.orphans]
          /\ exit' = 1
  /\ pc' = "idle"
  /\ UNCHANGED << files, voiceIds, queue, dryRun, results, effects, start, prev,
                  prevCleanup, steps, invocation, config >>
  /\ UNCHANGED << ast, keyOf, injVars, par, s3 >>

SpecCleanup ==
  /\ InitCleanup
  /\ [][\/ \E dry \in BOOLEAN, matched \in { << >>, FileList } : CleanupStart(dry, matched)
        \/ \E readOk \in BOOLEAN : ScanNext(readOk)
        \/ \E ok \in BOOLEAN : ListAndFilter(ok)
        \/ \E ok \in BOOLEAN : DeleteOrphans(ok)]_vars

\* C29: a cleanup run sends a delete request only when it has scanned every
\* matched document and has the listing; a run that matched no document,
\* or in which a read, a parse or the listing threw, sends none and leaves
\* the bucket as it was
C29_DeleteLast ==
  /\ (pc = "delete" \/ cleanup.deleted # {}) =>
        /\ cleanup.matched # << >>
        /\ cleanup.scanned = cleanup.matched
        /\ \A f \in Range(cleanup.matched) : extractExistingAudioData(files[f]).ok
        /\ cleanup.listed
  /\ (\/ cleanup.status = "nofiles"
      \/ cleanup.status = "failed" /\ cleanup.error \in {"read", "parse", "list"}) =>
        /\ pc = "idle"
        /\ cleanup.deleted = {}
        /\ storage = cleanup.storageAt
  /\ (cleanup.status # "none" /\ storage # cleanup.storageAt) => cleanup.status = "deleted"
\* orphans were deleted after both documents were scanned
C29_Witness ==
  /\ cleanup.status = "deleted" /\ cleanup.deleted # {}
  /\ cleanup.scanned = FileList
  /\ storage # cleanup.storageAt

(* ------------------------ the keys of one run -------------------------- *)
\* the relative paths of the documents of one run: nested one to three
\* deep, with a hyphen or an upper-case letter in a segment
RunPaths ==
  { << "c" >>, << "a", "b" >>, << "x", "a", "b" >>, << "y", "a", "b" >>, << "a-b" >>,
    << "A", "b" >>, << "b", "a" >>, << "x", "c" >> }

\* uploadAudio for a document of the run: the key it puts the audio under
UploadFor(file) ==
  /\ file \notin DOMAIN keyOf
  /\ keyOf' = [f \in DOMAIN keyOf \cup {file} |->
                IF f = file THEN generateKey(file, "v1") ELSE keyOf[f]]
  /\ UNCHANGED << ast, injVars, genVars, par, s3 >>

SpecKeys == InitIdle /\ [][\E file \in RunPaths : UploadFor(file)]_vars

\* C30: two different documents of one run never get the same storage key
\* for a voice, so the audio of one is never put over the audio of another
C30_KeysDistinct ==
  \A f \in DOMAIN keyOf, g \in DOMAIN keyOf : f # g => keyOf[f] # keyOf[g]
====
